---- MODULE Spec2Model ----
(***************************************************************************)
(* Model of the bank-statement parser of dkpinn/bpp (main.py, rules.py).   *)
(*                                                                         *)
(* Strings of the program are sequences of one-character strings, so that  *)
(* strip, endswith, replace, find, the regular expressions and the number  *)
(* and date parsers are computed character by character, as the code does. *)
(* A float is an exact decimal [none, m, e] = m * 10^(-e), normalised.     *)
(*                                                                         *)
(* Three specifications share the variables:                               *)
(*   Spec       one /parse request, object by object (parse_pdf and        *)
(*              parse_pdf_to_transactions with flush_line)                 *)
(*   SpecAmount normalize_amount_string / safe_parse_amount on raw tokens  *)
(*   SpecConc   two /parse requests interleaved at the await               *)
(***************************************************************************)
EXTENDS Naturals, Integers, Sequences, FiniteSets, TLC

VARIABLES
    \* ---- one request (Spec)
    pc,                  \* position of the handler
    filename,            \* file.filename
    doc,                 \* the uploaded document: text objects and page breaks
    today_year,          \* datetime.today().year
    idx,                 \* next object of doc that the page loop reads
    rule_name,           \* detect_rule's result
    first_year_from_doc, \* extract_year_from_doc's result
    current_line_items,  \* flush_line's nonlocal list of (x, word)
    current_y,           \* flush_line's nonlocal y (None: NoY)
    transactions,        \* the list parse_pdf_to_transactions builds
    flushed,             \* history: the x-maps flush_line was run on
    result,              \* what parse_pdf returned or raised
    \* ---- amount helpers (SpecAmount)
    a_pc, a_rule, a_raw, a_out, a_again, a_val,
    \* ---- two requests (SpecConc)
    c_pc, c_name, c_upload, c_handed, temp_file

pvars == <<pc, filename, doc, today_year, idx, rule_name, first_year_from_doc,
           current_line_items, current_y, transactions, flushed, result>>
avars == <<a_pc, a_rule, a_raw, a_out, a_again, a_val>>
cvars == <<c_pc, c_name, c_upload, c_handed, temp_file>>
vars == <<pvars, avars, cvars>>

-----------------------------------------------------------------------------
(* Bounds of the model *)

\* longest raw amount token enumerated character by character
MaxTokLen == 4
\* most rows (lines of text, or page breaks) of a document
MaxRows == 3
\* most bytes of an upload in the two-request specification
MaxBytes == 2

-----------------------------------------------------------------------------
(* Python's str, character by character *)

DigitChars == {"0", "1", "2", "3", "4", "5", "6", "7", "8", "9"}
UpperChars == {"A", "B", "C", "D", "E", "F", "G", "H", "I", "J", "K", "L", "M",
               "N", "O", "P", "Q", "R", "S", "T", "U", "V", "W", "X", "Y", "Z"}
LowerChars == {"a", "b", "c", "d", "e", "f", "g", "h", "i", "j", "k", "l", "m",
               "n", "o", "p", "q", "r", "s", "t", "u", "v", "w", "x", "y", "z"}

DigitVal(c) ==
    CASE c = "0" -> 0 [] c = "1" -> 1 [] c = "2" -> 2 [] c = "3" -> 3
      [] c = "4" -> 4 [] c = "5" -> 5 [] c = "6" -> 6 [] c = "7" -> 7
      [] c = "8" -> 8 [] c = "9" -> 9

DigitChar(n) ==
    CASE n = 0 -> "0" [] n = 1 -> "1" [] n = 2 -> "2" [] n = 3 -> "3"
      [] n = 4 -> "4" [] n = 5 -> "5" [] n = 6 -> "6" [] n = 7 -> "7"
      [] n = 8 -> "8" [] n = 9 -> "9"

UpperSeq == <<"A", "B", "C", "D", "E", "F", "G", "H", "I", "J", "K", "L", "M",
              "N", "O", "P", "Q", "R", "S", "T", "U", "V", "W", "X", "Y", "Z">>
LowerSeq == <<"a", "b", "c", "d", "e", "f", "g", "h", "i", "j", "k", "l", "m",
              "n", "o", "p", "q", "r", "s", "t", "u", "v", "w", "x", "y", "z">>

\* str.upper() and str.lower() on one character
UpperChar(c) ==
    IF c \in LowerChars THEN UpperSeq[CHOOSE i \in 1..26 : LowerSeq[i] = c] ELSE c

LowerChar(c) ==
    IF c \in UpperChars THEN LowerSeq[CHOOSE i \in 1..26 : UpperSeq[i] = c] ELSE c

Upper(s) == [i \in 1..Len(s) |-> UpperChar(s[i])]

Lower(s) == [i \in 1..Len(s) |-> LowerChar(s[i])]

\* str.strip(): leading and trailing whitespace removed
RECURSIVE LStrip(_)
LStrip(s) == IF s # <<>> /\ Head(s) = " " THEN LStrip(Tail(s)) ELSE s

RECURSIVE RStrip(_)
RStrip(s) ==
    IF s # <<>> /\ s[Len(s)] = " " THEN RStrip(SubSeq(s, 1, Len(s) - 1)) ELSE s

Strip(s) == RStrip(LStrip(s))

\* str.endswith(c) for a one-character suffix
EndsWith(s, c) == s # <<>> /\ s[Len(s)] = c

\* str.replace(sep, "") for a one-character separator
RECURSIVE RemoveChar(_, _)
RemoveChar(s, sep) ==
    IF s = <<>> THEN <<>>
    ELSE IF Head(s) = sep THEN RemoveChar(Tail(s), sep)
    ELSE <<Head(s)>> \o RemoveChar(Tail(s), sep)

\* str.replace(sep, by) for one-character sep and by
ReplaceChar(s, sep, by) == [i \in 1..Len(s) |-> IF s[i] = sep THEN by ELSE s[i]]

\* " ".join(parts)
RECURSIVE JoinSpace(_)
JoinSpace(parts) ==
    IF parts = <<>> THEN <<>>
    ELSE IF Len(parts) = 1 THEN parts[1]
    ELSE parts[1] \o <<" ">> \o JoinSpace(Tail(parts))

\* sub in s
Contains(s, sub) ==
    \E i \in 0..(Len(s) - Len(sub)) : SubSeq(s, i + 1, i + Len(sub)) = sub

\* s.find(sub): offset of the first occurrence, -1 when there is none
Find(s, sub) ==
    IF Contains(s, sub)
    THEN CHOOSE i \in 0..(Len(s) - Len(sub)) :
            /\ SubSeq(s, i + 1, i + Len(sub)) = sub
            /\ \A j \in 0..(i - 1) : SubSeq(s, j + 1, j + Len(sub)) # sub
    ELSE -1

\* re.split(r"\s+", text) of a stripped, non-empty text
RECURSIVE SplitWords(_)
SplitWords(s) ==
    IF s = <<>> THEN <<>>
    ELSE IF Head(s) = " " THEN SplitWords(Tail(s))
    ELSE LET n == IF \E k \in 1..Len(s) : s[k] = " "
                  THEN (CHOOSE k \in 1..Len(s) :
                            s[k] = " " /\ \A j \in 1..(k - 1) : s[j] # " ") - 1
                  ELSE Len(s)
         IN <<SubSeq(s, 1, n)>> \o SplitWords(SubSeq(s, n + 1, Len(s)))

\* int(s) of a string of digits
RECURSIVE DigitsToNat(_)
DigitsToNat(s) ==
    IF s = <<>> THEN 0
    ELSE DigitsToNat(SubSeq(s, 1, Len(s) - 1)) * 10 + DigitVal(s[Len(s)])

AllDigits(s) == \A i \in 1..Len(s) : s[i] \in DigitChars

\* n printed with at least w digits, zero padded ("%02d", "%04d")
RECURSIVE NatToDigits(_, _)
NatToDigits(n, w) ==
    IF n < 10 /\ w <= 1 THEN <<DigitChar(n)>>
    ELSE NatToDigits(n \div 10, w - 1) \o <<DigitChar(n % 10)>>

-----------------------------------------------------------------------------
(* rules.py *)

PARSING_RULES ==
    [ABSA_CHEQUE_ACCOUNT_STATEMENT |->
        [column_zones |-> [description |-> <<95, 305>>,
                           debit       |-> <<310, 390>>,
                           credit      |-> <<395, 470>>,
                           balance     |-> <<475, 999>>],
         amount_format |-> [thousands_separator |-> " ",
                            decimal_separator   |-> ".",
                            negative_trailing   |-> "N"],
         date_format |-> [formats |-> <<"%d/%m/%Y">>, year_optional |-> "N"],
         date_x_threshold |-> 95],
     STANDARD_BANK_BUSINESS_CURRENT_ACCOUNT |->
        [column_zones |-> [description |-> <<0, 460>>,
                           debit       |-> <<465, 540>>,
                           credit      |-> <<545, 630>>,
                           balance     |-> <<635, 999>>],
         amount_format |-> [thousands_separator |-> ".",
                            decimal_separator   |-> ",",
                            negative_trailing   |-> "Y"],
         date_format |-> [formats |-> <<"%m %d">>, year_optional |-> "Y"],
         date_x_threshold |-> 120]]

RuleNames == DOMAIN PARSING_RULES

-----------------------------------------------------------------------------
(* floats: None, or the exact decimal m * 10^(-e) *)

None == [none |-> TRUE, m |-> 0, e |-> 0]

RECURSIVE Dec(_, _)
Dec(m, e) ==
    IF e > 0 /\ m % 10 = 0 THEN Dec(m \div 10, e - 1)
    ELSE [none |-> FALSE, m |-> m, e |-> e]

\* -x
Neg(x) == [x EXCEPT !.m = 0 - x.m]

\* bool(x) of an Optional[float]: None and 0.0 are false
Truthy(x) == ~x.none /\ x.m # 0

\* float(s) of a string matching -?[0-9.]+ ; raises ValueError (ok = FALSE)
\* unless it holds at most one point and at least one digit
PyFloat(s) ==
    LET neg  == s # <<>> /\ Head(s) = "-"
        body == IF neg THEN Tail(s) ELSE s
        dots == {i \in 1..Len(body) : body[i] = "."}
        digs == RemoveChar(body, ".")
    IN  IF Cardinality(dots) > 1 \/ digs = <<>> \/ ~AllDigits(digs)
        THEN [ok |-> FALSE, v |-> None]
        ELSE LET p == IF dots = {} THEN Len(body) + 1
                      ELSE CHOOSE i \in dots : TRUE
                 e == Len(body) - p
                 e0 == IF e < 0 THEN 0 ELSE e
                 m == DigitsToNat(digs)
             IN [ok |-> TRUE, v |-> Dec(IF neg THEN 0 - m ELSE m, e0)]

-----------------------------------------------------------------------------
(* main.py: amounts *)

ValueError == [ok |-> FALSE, s |-> <<>>]

\* re.fullmatch(r"[0-9.]+", raw) is not None
FullMatchNumber(raw) ==
    raw # <<>> /\ \A i \in 1..Len(raw) : raw[i] \in DigitChars \cup {"."}

\* (mutant) the two separators taken in each other's place
normalize_swapped_separators(raw, th_sep, dec_sep, trailing_neg) ==
    LET r0   == Strip(raw)
        negY == trailing_neg = "Y" /\ EndsWith(r0, "-")
        r1   == IF negY THEN Strip(SubSeq(r0, 1, Len(r0) - 1)) ELSE r0
        negN == trailing_neg = "N" /\ EndsWith(r1, "N")
        r2   == IF negN THEN Strip(SubSeq(r1, 1, Len(r1) - 1)) ELSE r1
        neg  == negY \/ negN
        r3   == RemoveChar(r2, dec_sep)
        r4   == ReplaceChar(r3, th_sep, ".")
    IN  IF ~FullMatchNumber(r4) THEN ValueError
        ELSE [ok |-> TRUE, s |-> IF neg THEN <<"-">> \o r4 ELSE r4]

normalize_amount_string(raw, th_sep, dec_sep, trailing_neg) ==
    LET r0   == Strip(raw)
        negY == trailing_neg = "Y" /\ EndsWith(r0, "-")
        r1   == IF negY THEN Strip(SubSeq(r0, 1, Len(r0) - 1)) ELSE r0
        negN == trailing_neg = "N" /\ EndsWith(r1, "N")
        r2   == IF negN THEN Strip(SubSeq(r1, 1, Len(r1) - 1)) ELSE r1
        neg  == negY \/ negN
        r3   == RemoveChar(r2, th_sep)
        r4   == ReplaceChar(r3, dec_sep, ".")
    IN  IF ~FullMatchNumber(r4) THEN ValueError
        ELSE [ok |-> TRUE, s |-> IF neg THEN <<"-">> \o r4 ELSE r4]

safe_parse_amount(token, fmt) ==
    IF token = <<>> THEN None
    ELSE LET n == normalize_amount_string(token, fmt.thousands_separator,
                                          fmt.decimal_separator,
                                          fmt.negative_trailing)
         IN IF ~n.ok THEN None
            ELSE IF ~PyFloat(n.s).ok THEN None
            ELSE PyFloat(n.s).v

-----------------------------------------------------------------------------
(* datetime.strptime / strftime, for the two formats of rules.py *)

BadDate == [ok |-> FALSE, y |-> 0, m |-> 0, d |-> 0]

\* %d : 3[0-1] | [1-2]\d | 0[1-9] | [1-9] | " "[1-9]
IsDayStr(s) ==
    \/ Len(s) = 1 /\ s[1] \in DigitChars \ {"0"}
    \/ /\ Len(s) = 2
       /\ \/ s[1] = "3" /\ s[2] \in {"0", "1"}
          \/ s[1] \in {"1", "2"} /\ s[2] \in DigitChars
          \/ s[1] \in {"0", " "} /\ s[2] \in DigitChars \ {"0"}

\* %m : 1[0-2] | 0[1-9] | [1-9]
IsMonthStr(s) ==
    \/ Len(s) = 1 /\ s[1] \in DigitChars \ {"0"}
    \/ /\ Len(s) = 2
       /\ \/ s[1] = "1" /\ s[2] \in {"0", "1", "2"}
          \/ s[1] = "0" /\ s[2] \in DigitChars \ {"0"}

\* %Y : \d\d\d\d
IsYearStr(s) == Len(s) = 4 /\ AllDigits(s)

IsLeap(y) == (y % 4 = 0 /\ y % 100 # 0) \/ y % 400 = 0

DaysInMonth(y, m) ==
    IF m = 2 THEN (IF IsLeap(y) THEN 29 ELSE 28)
    ELSE IF m \in {4, 6, 9, 11} THEN 30 ELSE 31

\* datetime(y, m, d): ValueError for a year or a day out of range
MakeDate(y, m, d) ==
    IF y >= 1 /\ d <= DaysInMonth(y, m)
    THEN [ok |-> TRUE, y |-> y, m |-> m, d |-> d]
    ELSE BadDate

\* datetime.strptime(token, fmt): the whole token must match the format;
\* a format without %Y gives the year 1900
strptime(token, fmt) ==
    CASE fmt = "%d/%m/%Y" ->
            LET cuts == {p \in (1..Len(token)) \X (1..Len(token)) :
                            /\ p[1] < p[2]
                            /\ token[p[1]] = "/" /\ token[p[2]] = "/"
                            /\ IsDayStr(SubSeq(token, 1, p[1] - 1))
                            /\ IsMonthStr(SubSeq(token, p[1] + 1, p[2] - 1))
                            /\ IsYearStr(SubSeq(token, p[2] + 1, Len(token)))}
            IN  IF cuts = {} THEN BadDate
                ELSE LET p == CHOOSE q \in cuts : TRUE
                     IN MakeDate(DigitsToNat(SubSeq(token, p[2] + 1, Len(token))),
                                 DigitsToNat(SubSeq(token, p[1] + 1, p[2] - 1)),
                                 DigitsToNat(RemoveChar(SubSeq(token, 1, p[1] - 1), " ")))
      [] fmt = "%m %d" ->
            \* the blank of the format is \s+ : one or more whitespace characters
            LET cuts == {p \in (1..Len(token)) \X (1..Len(token)) :
                            /\ p[1] <= p[2]
                            /\ \A k \in p[1]..p[2] : token[k] = " "
                            /\ IsMonthStr(SubSeq(token, 1, p[1] - 1))
                            /\ IsDayStr(SubSeq(token, p[2] + 1, Len(token)))}
            IN  IF cuts = {} THEN BadDate
                ELSE LET p == CHOOSE q \in cuts : TRUE
                     IN MakeDate(1900,
                                 DigitsToNat(SubSeq(token, 1, p[1] - 1)),
                                 DigitsToNat(RemoveChar(SubSeq(token, p[2] + 1, Len(token)), " ")))
      [] OTHER -> BadDate

\* dt.replace(year=y): ValueError when the day does not exist in that year
ReplaceYear(dt, y) == MakeDate(y, dt.m, dt.d)

\* parse_date's loop over date_rule["formats"], from format number k on
RECURSIVE ParseDateFrom(_, _, _, _)
ParseDateFrom(token, date_rule, fallback_year, k) ==
    IF k > Len(date_rule.formats) THEN BadDate
    ELSE LET dt  == strptime(token, date_rule.formats[k])
             dt2 == IF dt.ok /\ date_rule.year_optional = "Y"
                    THEN ReplaceYear(dt, fallback_year) ELSE dt
         IN IF dt2.ok THEN dt2
            ELSE ParseDateFrom(token, date_rule, fallback_year, k + 1)

parse_date(token, date_rule, fallback_year) ==
    ParseDateFrom(token, date_rule, fallback_year, 1)

\* dt.strftime("%Y-%m-%d"); the years of the documents have four digits
\* (how a year below 1000 is padded depends on the platform's C library)
strftime(dt) ==
    NatToDigits(dt.y, 4) \o <<"-">> \o NatToDigits(dt.m, 2) \o <<"-">> \o NatToDigits(dt.d, 2)

-----------------------------------------------------------------------------
(* main.py: the document, rule detection, extraction *)

\* A document is what pdfminer's extract_pages gives, flattened: the text
\* objects (LTTextLineHorizontal: y0, x0, get_text()) of each page in order,
\* and a PageBreak between two pages.
TextObj(y, x0, text) == [kind |-> "text", y |-> y, x0 |-> x0, text |-> text]
PageBreak == [kind |-> "page", y |-> 0, x0 |-> 0, text |-> <<>>]

\* the objects of the first page
RECURSIVE FirstPage(_)
FirstPage(d) ==
    IF d = <<>> \/ Head(d).kind = "page" THEN <<>>
    ELSE <<Head(d)>> \o FirstPage(Tail(d))

\* re.sub(r"\s+", " ", text) of a stripped text
CollapseSpaces(text) == JoinSpace(SplitWords(text))

RECURSIVE PageStrings(_, _)
PageStrings(objs, max_lines) ==
    IF objs = <<>> \/ max_lines <= 0 THEN <<>>
    ELSE LET text == Strip(Head(objs).text)
         IN IF text # <<>>
            THEN <<CollapseSpaces(text)>> \o PageStrings(Tail(objs), max_lines - 1)
            ELSE PageStrings(Tail(objs), max_lines)

first_page_strings(d, max_lines) == PageStrings(FirstPage(d), max_lines)

NoRule == [ok |-> FALSE, key |-> ""]

\* (mutant) one keyword of a pair is enough
detect_rule_either_keyword(first_page) ==
    LET joined == Upper(JoinSpace(first_page))
    IN  IF Contains(joined, <<"A", "B", "S", "A">>) \/ Contains(joined, <<"C", "H", "E", "Q", "U", "E", " ", "A", "C", "C", "O", "U", "N", "T">>)
        THEN [ok |-> TRUE, key |-> "ABSA_CHEQUE_ACCOUNT_STATEMENT"]
        ELSE IF Contains(joined, <<"S", "T", "A", "N", "D", "A", "R", "D", " ", "B", "A", "N", "K">>)
                \/ Contains(joined, <<"B", "U", "S", "I", "N", "E", "S", "S", " ", "C", "U", "R", "R", "E", "N", "T", " ", "A", "C", "C", "O", "U", "N", "T">>)
        THEN [ok |-> TRUE, key |-> "STANDARD_BANK_BUSINESS_CURRENT_ACCOUNT"]
        ELSE NoRule

detect_rule(first_page) ==
    LET joined == Upper(JoinSpace(first_page))
    IN  IF Contains(joined, <<"A", "B", "S", "A">>) /\ Contains(joined, <<"C", "H", "E", "Q", "U", "E", " ", "A", "C", "C", "O", "U", "N", "T">>)
        THEN [ok |-> TRUE, key |-> "ABSA_CHEQUE_ACCOUNT_STATEMENT"]
        ELSE IF Contains(joined, <<"S", "T", "A", "N", "D", "A", "R", "D", " ", "B", "A", "N", "K">>)
                /\ Contains(joined, <<"B", "U", "S", "I", "N", "E", "S", "S", " ", "C", "U", "R", "R", "E", "N", "T", " ", "A", "C", "C", "O", "U", "N", "T">>)
        THEN [ok |-> TRUE, key |-> "STANDARD_BANK_BUSINESS_CURRENT_ACCOUNT"]
        ELSE NoRule

\* \w of the regular expressions
IsWordChar(c) == c \in DigitChars \cup UpperChars \cup LowerChars \cup {"_"}

\* the offsets where \b(20\d{2})\b matches in s
YearMatches(s) ==
    {i \in 1..(Len(s) - 3) :
        /\ s[i] = "2" /\ s[i + 1] = "0"
        /\ s[i + 2] \in DigitChars /\ s[i + 3] \in DigitChars
        /\ (i = 1 \/ ~IsWordChar(s[i - 1]))
        /\ (i + 3 = Len(s) \/ ~IsWordChar(s[i + 4]))}

extract_year_from_doc(d, today) ==
    LET s == JoinSpace(first_page_strings(d, 100))
        ms == YearMatches(s)
    IN  IF ms = {} THEN today
        ELSE LET i == CHOOSE k \in ms : \A j \in ms : k <= j
             IN DigitsToNat(SubSeq(s, i, i + 3))

\* sorted(items, key=lambda t: t[0]): stable insertion sort by x
RECURSIVE InsertByX(_, _)
InsertByX(sorted, it) ==
    IF sorted = <<>> THEN <<it>>
    ELSE IF sorted[Len(sorted)].x <= it.x THEN Append(sorted, it)
    ELSE Append(InsertByX(SubSeq(sorted, 1, Len(sorted) - 1), it), sorted[Len(sorted)])

RECURSIVE SortByX(_)
SortByX(items) ==
    IF items = <<>> THEN <<>>
    ELSE InsertByX(SortByX(SubSeq(items, 1, Len(items) - 1)), items[Len(items)])

\* [w for x, w in xmap if lo <= x <= hi]
RECURSIVE ZoneWords(_, _)
ZoneWords(xmap, zone) ==
    IF xmap = <<>> THEN <<>>
    ELSE IF zone[1] <= Head(xmap).x /\ Head(xmap).x <= zone[2]
    THEN <<Head(xmap).w>> \o ZoneWords(Tail(xmap), zone)
    ELSE ZoneWords(Tail(xmap), zone)

combine_column_values(xmap, zone) == JoinSpace(ZoneWords(xmap, zone))

\* next((w for x, w in xmap if x >= date_x_thresh), "")
RECURSIVE DateToken(_, _)
DateToken(xmap, date_x_thresh) ==
    IF xmap = <<>> THEN <<>>
    ELSE IF Head(xmap).x >= date_x_thresh THEN Head(xmap).w
    ELSE DateToken(Tail(xmap), date_x_thresh)

\* flush_line's guard: not desc or (not debit and not credit)
SkipLine(desc, debit, credit) == desc = <<>> \/ (~Truthy(debit) /\ ~Truthy(credit))

\* credit if credit is not None else -debit if debit is not None else 0.0
Amount(credit, debit) ==
    IF ~credit.none THEN credit
    ELSE IF ~debit.none THEN Neg(debit)
    ELSE Dec(0, 0)

\* What flush_line reads off one line: the four zone strings, the date token,
\* the parsed amounts and date, and whether the line is emitted.
LineFields(items, rule_key, fallback_year) ==
    LET rule     == PARSING_RULES[rule_key]
        zones    == rule.column_zones
        fmt      == rule.amount_format
        xmap     == SortByX(items)
        desc     == Strip(combine_column_values(xmap, zones.description))
        debit_t  == Strip(combine_column_values(xmap, zones.debit))
        credit_t == Strip(combine_column_values(xmap, zones.credit))
        bal_t    == Strip(combine_column_values(xmap, zones.balance))
        date_token == DateToken(xmap, rule.date_x_threshold)
        debit    == safe_parse_amount(debit_t, fmt)
        credit   == safe_parse_amount(credit_t, fmt)
        balance  == safe_parse_amount(bal_t, fmt)
        dt       == parse_date(date_token, rule.date_format, fallback_year)
    IN  [xmap |-> xmap, desc |-> desc, debit_t |-> debit_t, credit_t |-> credit_t,
         bal_t |-> bal_t, date_token |-> date_token,
         debit |-> debit, credit |-> credit, balance |-> balance, dt |-> dt,
         emit |-> ~SkipLine(desc, debit, credit) /\ dt.ok]

\* the dict flush_line appends
Transaction(f) ==
    [date |-> strftime(f.dt), description |-> f.desc,
     amount |-> Amount(f.credit, f.debit), balance |-> f.balance]

\* flush_line(): the transactions after it ran on current_line_items = items
\* (which it always leaves empty)
flush_line(items, txns, rule_key, fallback_year) ==
    IF items = <<>> THEN txns
    ELSE LET f == LineFields(items, rule_key, fallback_year)
         IN IF f.emit THEN Append(txns, Transaction(f)) ELSE txns

\* the (x_pos, w) pairs the page loop records for one text object
ObjItems(obj) ==
    LET text  == Strip(obj.text)
        words == SplitWords(text)
    IN  [i \in 1..Len(words) |-> [x |-> obj.x0 + Find(text, words[i]), w |-> words[i]]]

NoY == [none |-> TRUE, v |-> 0]
SomeY(y) == [none |-> FALSE, v |-> y]

Abs(n) == IF n < 0 THEN 0 - n ELSE n

\* the page loop's test for a new line: abs(y - current_y) > 2, current_y
\* being y itself when it was None
NewLine(cur_y, y) == ~cur_y.none /\ Abs(y - cur_y.v) > 2

-----------------------------------------------------------------------------
(* The documents the model uploads: up to MaxRows rows, each one of Rows,   *)
(* printed 12 pt apart from y = 700 downwards.                              *)

T(dy, x0, text) == [kind |-> "text", dy |-> dy, x0 |-> x0, text |-> text]

Rows ==
    << \* first-page headers
       <<T(0, 30, <<"A", "b", "s", "a", " ", "C", "h", "e", "q", "u", "e", " ", "A", "c", "c", "o", "u", "n", "t">>)>>,
       <<T(0, 30, <<"S", "t", "a", "n", "d", "a", "r", "d", " ", "B", "a", "n", "k", " ", "B", "u", "s", "i", "n", "e", "s", "s", " ", "C", "u", "r", "r", "e", "n", "t", " ", "A", "c", "c", "o", "u", "n", "t", " ", "2", "0", "2", "5">>)>>,
       <<T(0, 30, <<"S", "t", "a", "n", "d", "a", "r", "d", " ", "B", "a", "n", "k", " ", "C", "h", "e", "q", "u", "e", " ", "A", "c", "c", "o", "u", "n", "t">>)>>,
       \* ABSA layout: date and description from x = 95, debit, credit, balance
       <<T(0, 95, <<"0", "1", "/", "0", "2", "/", "2", "0", "2", "4", " ", "O", "p", "e", "n", "i", "n", "g", " ", "B", "a", "l", "a", "n", "c", "e">>), T(0, 480, <<"1", "0", "0", "0", ".", "0", "0">>)>>,
       <<T(0, 95, <<"0", "2", "/", "0", "2", "/", "2", "0", "2", "4", " ", "P", "a", "y", "m", "e", "n", "t">>), T(0, 320, <<"1", "5", "0", ".", "0", "0">>), T(1, 480, <<"8", "5", "0", ".", "0", "0">>)>>,
       <<T(0, 95, <<"0", "3", "/", "0", "2", "/", "2", "0", "2", "4", " ", "F", "e", "e">>), T(0, 320, <<"1", "5", "0", ".", "0", "0">>), T(0, 480, <<"9", "0", "0", ".", "0", "0">>)>>,
       <<T(0, 95, <<"0", "4", "/", "0", "2", "/", "2", "0", "2", "4", " ", "R", "e", "v", "e", "r", "s", "a", "l">>), T(0, 320, <<"1", "5", "0", ".", "0", "0", "N">>), T(0, 480, <<"1", "0", "0", "0", ".", "0", "0">>)>>,
       <<T(0, 95, <<"r", "e", "f", " ", "1", "2", "3">>)>>,
       <<T(0, 95, <<"3", "1", "/", "0", "2", "/", "2", "0", "2", "4", " ", "T", "o", "t", "a", "l">>), T(0, 320, <<"1", ".", "2", ".", "3">>), T(0, 400, <<"5", ".", "0", "0">>)>>,
       \* Standard Bank layout: date pair left of x = 120, trailing minus
       <<T(0, 30, <<"0", "3", " ", "2", "2">>), T(0, 130, <<"P", "a", "y", "m", "e", "n", "t">>), T(0, 470, <<"8", "0", "0", ",", "0", "0", "-">>), T(0, 640, <<"9", "0", "0", ",", "0", "0">>)>>,
       \* the next page starts here
       <<[kind |-> "page", dy |-> 0, x0 |-> 0, text |-> <<>>]>> >>

RowIds == 1..Len(Rows)

RowY(i) == 700 - 12 * i

Place(row, y) ==
    [k \in 1..Len(row) |->
        IF row[k].kind = "page" THEN PageBreak
        ELSE TextObj(y + row[k].dy, row[k].x0, row[k].text)]

RECURSIVE DocOf(_, _)
DocOf(ids, i) ==
    IF ids = <<>> THEN <<>>
    ELSE Place(Rows[Head(ids)], RowY(i)) \o DocOf(Tail(ids), i + 1)

Docs == {DocOf(ids, 1) : ids \in UNION {[1..n -> RowIds] : n \in 0..MaxRows}}

FileNames == {<<"s", "t", "m", "t", ".", "P", "D", "F">>, <<"s", "t", "m", "t", ".", "t", "x", "t">>}

TodayYears == {2026}

-----------------------------------------------------------------------------
(* main.py: parse_pdf, one request *)

\* s.endswith(suffix)
SuffixIs(s, suffix) ==
    Len(s) >= Len(suffix) /\ SubSeq(s, Len(s) - Len(suffix) + 1, Len(s)) = suffix

\* (mutant) the check for an empty transaction list left out
ParseOutcomeUnchecked(txns) == "Success"

\* parse_pdf's end: 400 when no transactions, else the success payload
ParseOutcome(txns) == IF txns = <<>> THEN "EmptyResult" ELSE "Success"

AIdle ==
    /\ a_pc = "idle" /\ a_rule = "" /\ a_raw = <<>>
    /\ a_out = ValueError /\ a_again = ValueError /\ a_val = None

CIdle ==
    /\ c_pc = <<>> /\ c_name = <<>> /\ c_upload = <<>> /\ c_handed = <<>>

PIdle ==
    /\ pc = "idle" /\ filename = <<>> /\ doc = <<>> /\ today_year = 0 /\ idx = 0
    /\ rule_name = "" /\ first_year_from_doc = 0 /\ current_line_items = <<>>
    /\ current_y = NoY /\ transactions = <<>> /\ flushed = <<>> /\ result = ""

Init ==
    /\ pc = "start"
    /\ filename \in FileNames
    /\ doc \in Docs
    /\ today_year \in TodayYears
    /\ idx = 1
    /\ rule_name = ""
    /\ first_year_from_doc = 0
    /\ current_line_items = <<>>
    /\ current_y = NoY
    /\ transactions = <<>>
    /\ flushed = <<>>
    /\ result = ""
    /\ temp_file = <<>>
    /\ AIdle /\ CIdle

\* parse_pdf up to the end of the with block: the file name check, then the
\* upload written to /tmp/upload.pdf
Upload ==
    /\ pc = "start"
    /\ IF SuffixIs(Lower(filename), <<".", "p", "d", "f">>)
       THEN /\ temp_file' = doc
            /\ pc' = "saved"
            /\ result' = result
       ELSE /\ temp_file' = temp_file
            /\ pc' = "done"
            /\ result' = "BadUpload"
    /\ UNCHANGED <<filename, doc, today_year, idx, rule_name, first_year_from_doc,
                   current_line_items, current_y, transactions, flushed>>
    /\ UNCHANGED <<avars, c_pc, c_name, c_upload, c_handed>>

\* sample_lines = first_page_strings(temp_path); rule_name = detect_rule(...)
\* (the debug flag only prints the two)
Detect ==
    /\ pc = "saved"
    /\ LET r == detect_rule(first_page_strings(temp_file, 40))
       IN IF r.ok
          THEN /\ rule_name' = r.key
               /\ pc' = "page"
               /\ result' = result
          ELSE /\ rule_name' = rule_name
               /\ pc' = "done"
               /\ result' = "Unsupported"
    /\ UNCHANGED <<filename, doc, today_year, idx, first_year_from_doc,
                   current_line_items, current_y, transactions, flushed>>
    /\ UNCHANGED <<avars, cvars>>

\* parse_pdf_to_transactions: the top of the loop over pages
StartPage ==
    /\ pc = "page"
    /\ current_line_items' = <<>>
    /\ current_y' = NoY
    /\ first_year_from_doc' = extract_year_from_doc(temp_file, today_year)
    /\ pc' = "extract"
    /\ UNCHANGED <<filename, doc, today_year, idx, rule_name, transactions,
                   flushed, result>>
    /\ UNCHANGED <<avars, cvars>>

\* one turn of the loop over the page's objects
ReadObject ==
    /\ pc = "extract"
    /\ idx <= Len(temp_file)
    /\ temp_file[idx].kind = "text"
    /\ LET obj == temp_file[idx]
           cur == IF current_y.none THEN SomeY(obj.y) ELSE current_y
           new == NewLine(cur, obj.y)
       IN /\ transactions' =
                IF new THEN flush_line(current_line_items, transactions,
                                       rule_name, first_year_from_doc)
                ELSE transactions
          /\ flushed' =
                IF new /\ current_line_items # <<>>
                THEN Append(flushed, SortByX(current_line_items)) ELSE flushed
          /\ current_y' = IF new THEN SomeY(obj.y) ELSE cur
          /\ current_line_items' =
                (IF new THEN <<>> ELSE current_line_items) \o ObjItems(obj)
    /\ idx' = idx + 1
    /\ UNCHANGED <<pc, filename, doc, today_year, rule_name, first_year_from_doc,
                   result>>
    /\ UNCHANGED <<avars, cvars>>

\* the flush_line() that ends a page
EndPage ==
    /\ pc = "extract"
    /\ \/ idx > Len(temp_file)
       \/ idx <= Len(temp_file) /\ temp_file[idx].kind = "page"
    /\ transactions' = flush_line(current_line_items, transactions,
                                  rule_name, first_year_from_doc)
    /\ flushed' = IF current_line_items # <<>>
                  THEN Append(flushed, SortByX(current_line_items)) ELSE flushed
    /\ current_line_items' = <<>>
    /\ IF idx > Len(temp_file)
       THEN pc' = "extracted" /\ idx' = idx
       ELSE pc' = "page" /\ idx' = idx + 1
    /\ UNCHANGED <<filename, doc, today_year, rule_name, first_year_from_doc,
                   current_y, result>>
    /\ UNCHANGED <<avars, cvars>>

\* parse_pdf after parse_pdf_to_transactions returned: the 400 for an empty
\* list, else the payload (whose csvData is the same transactions as text)
Finish ==
    /\ pc = "extracted"
    /\ result' = ParseOutcome(transactions)
    /\ pc' = "done"
    /\ UNCHANGED <<filename, doc, today_year, idx, rule_name, first_year_from_doc,
                   current_line_items, current_y, transactions, flushed>>
    /\ UNCHANGED <<avars, cvars>>

Next == Upload \/ Detect \/ StartPage \/ ReadObject \/ EndPage \/ Finish

Spec == Init /\ [][Next]_vars

-----------------------------------------------------------------------------
(* normalize_amount_string and safe_parse_amount on raw tokens *)

AmountChars == {"1", " ", ".", ",", "-", "N"}

ExampleTokens == {<<"1", " ", "2", "3", "4", ".", "5", "6">>, <<"1", "2", "3", "4", ".", "5", "6">>, <<"8", "0", "0", ",", "0", "0", "-">>, <<"-", "1", "2", "3", ".", "4", "5">>, <<"1", ".", "2", "3", "4", ",", "5", "6">>, <<"1", "2", "3", ".", "4", "5", "N">>}

RawTokens == UNION {[1..n -> AmountChars] : n \in 0..MaxTokLen} \cup ExampleTokens

AmountFormat(rule_key) == PARSING_RULES[rule_key].amount_format

Normalized(raw, rule_key) ==
    normalize_amount_string(raw, AmountFormat(rule_key).thousands_separator,
                            AmountFormat(rule_key).decimal_separator,
                            AmountFormat(rule_key).negative_trailing)

InitAmount ==
    /\ a_pc = "raw"
    /\ a_rule \in RuleNames
    /\ a_raw \in RawTokens
    /\ a_out = ValueError
    /\ a_again = ValueError
    /\ a_val = None
    /\ temp_file = <<>>
    /\ PIdle /\ CIdle

\* normalize_amount_string(raw, ...)
AmtNormalize ==
    /\ a_pc = "raw"
    /\ a_out' = Normalized(a_raw, a_rule)
    /\ a_pc' = "normalized"
    /\ UNCHANGED <<a_rule, a_raw, a_again, a_val, pvars, cvars>>

\* normalize_amount_string applied to its own output
AmtRenormalize ==
    /\ a_pc = "normalized"
    /\ a_out.ok
    /\ a_again' = Normalized(a_out.s, a_rule)
    /\ a_pc' = "renormalized"
    /\ UNCHANGED <<a_rule, a_raw, a_out, a_val, pvars, cvars>>

\* safe_parse_amount(raw, fmt)
AmtSafeParse ==
    /\ a_pc = "raw"
    /\ a_val' = safe_parse_amount(a_raw, AmountFormat(a_rule))
    /\ a_pc' = "parsed"
    /\ UNCHANGED <<a_rule, a_raw, a_out, a_again, pvars, cvars>>

NextAmount == AmtNormalize \/ AmtRenormalize \/ AmtSafeParse

SpecAmount == InitAmount /\ [][NextAmount]_vars

-----------------------------------------------------------------------------
(* Two /parse requests on one event loop.  A handler runs without           *)
(* interruption except at its one await, file.read(), which it reaches with *)
(* /tmp/upload.pdf already opened for writing (and so truncated).  What     *)
(* follows the await -- the write at the handle's offset 0, the close, and  *)
(* the reads of first_page_strings and parse_pdf_to_transactions -- is      *)
(* synchronous.                                                             *)

Requests == {1, 2}

ByteVals == {"a", "b"}

Uploads == UNION {[1..n -> ByteVals] : n \in 1..MaxBytes}

\* fh.write(data) at offset 0 of a file opened before, then close
WriteAtStart(file, data) == data \o SubSeq(file, Len(data) + 1, Len(file))

InitConc ==
    /\ c_pc = [r \in Requests |-> "start"]
    /\ c_name \in [Requests -> FileNames]
    /\ c_upload \in [Requests -> Uploads]
    /\ c_handed = [r \in Requests |-> <<>>]
    /\ temp_file = <<>>
    /\ PIdle /\ AIdle

\* the handler of request r up to its await: the file name check and
\* open(temp_path, "wb")
ConcOpen(r) ==
    /\ c_pc[r] = "start"
    /\ IF SuffixIs(Lower(c_name[r]), <<".", "p", "d", "f">>)
       THEN /\ temp_file' = <<>>
            /\ c_pc' = [c_pc EXCEPT ![r] = "await"]
       ELSE /\ temp_file' = temp_file
            /\ c_pc' = [c_pc EXCEPT ![r] = "rejected"]
    /\ UNCHANGED <<c_name, c_upload, c_handed, pvars, avars>>

\* the handler of request r from its await on: write, close, and the bytes
\* of temp_path that the parsing functions then read
ConcResume(r) ==
    /\ c_pc[r] = "await"
    /\ temp_file' = WriteAtStart(temp_file, c_upload[r])
    /\ c_handed' = [c_handed EXCEPT ![r] = temp_file']
    /\ c_pc' = [c_pc EXCEPT ![r] = "parsed"]
    /\ UNCHANGED <<c_name, c_upload, pvars, avars>>

NextConc == \E r \in Requests : ConcOpen(r) \/ ConcResume(r)

SpecConc == InitConc /\ [][NextConc]_vars

-----------------------------------------------------------------------------
(* Properties *)

\* the fields flush_line read off each line it was run on, in order
FlushedFields ==
    [i \in 1..Len(flushed) |-> LineFields(flushed[i], rule_name, first_year_from_doc)]

IsEmitted(f) == f.emit

\* the lines that were appended as transactions: transactions[i] comes from
\* EmittedFields[i] once the document is read
EmittedFields == SelectSeq(FlushedFields, IsEmitted)

\* the request ran parse_pdf_to_transactions to its end
Extracted == pc = "done" /\ rule_name # ""

RECURSIVE Pow10(_)
Pow10(n) == IF n <= 0 THEN 1 ELSE 10 * Pow10(n - 1)

Max2(a, b) == IF a >= b THEN a ELSE b

\* round(cur - prev, 2) == amt, in exact decimals (ties to even)
DeltaIsAmount(prev, cur, amt) ==
    LET k    == Max2(Max2(prev.e, cur.e), Max2(amt.e, 2))
        d    == cur.m * Pow10(k - cur.e) - prev.m * Pow10(k - prev.e)
        unit == Pow10(k - 2)
        q    == d \div unit
        rem  == d % unit
        r    == IF 2 * rem > unit \/ (2 * rem = unit /\ q % 2 = 1) THEN q + 1 ELSE q
    IN  amt.m * Pow10(k - amt.e) = r * unit

\* C1 (as claimed): in the transactions emitted for one document, every
\* adjacent pair reconciles: round(balance[i] - balance[i-1], 2) = amount[i].
C1_AdjacentPairsReconcile ==
    Extracted =>
        \A i \in 2..Len(transactions) :
            (~transactions[i].balance.none /\ ~transactions[i - 1].balance.none)
                => DeltaIsAmount(transactions[i - 1].balance, transactions[i].balance,
                                 transactions[i].amount)

\* C2 (as claimed): the sign of an emitted amount matches the column it was
\* read from: from the credit zone it is >= 0, from the debit zone (no credit
\* value) it is <= 0.
C2_SignMatchesColumn ==
    Extracted =>
        \A i \in 1..Len(transactions) :
            LET f == EmittedFields[i]
            IN /\ ~f.credit.none => transactions[i].amount.m >= 0
               /\ (f.credit.none /\ ~f.debit.none) => transactions[i].amount.m <= 0

\* C3 (as claimed): whatever the interleaving of two requests, the bytes a
\* request hands to first_page_strings and parse_pdf_to_transactions are the
\* bytes that request uploaded.
C3_DocumentsIsolated ==
    \A r \in Requests : c_pc[r] = "parsed" => c_handed[r] = c_upload[r]

\* C4: a document from which no transaction is extracted ends in EmptyResult,
\* never in a success payload; success is returned only with a non-empty
\* transaction list; and once a rule is detected the request ends in one of
\* these two outcomes, whatever tokens failed to parse on the way; a
\* request ends in nothing but the handler's own three failures or success.
C4_EmptyIsFailure ==
    /\ result = "Success" => transactions # <<>>
    /\ (Extracted /\ transactions = <<>>) => result = "EmptyResult"
    /\ Extracted => result \in {"EmptyResult", "Success"}
    /\ pc = "done" => result \in {"BadUpload", "Unsupported", "EmptyResult", "Success"}

\* C4 witness: a request that ended in EmptyResult after flush_line met a
\* line with an unparsable amount token and an unparsable date token.
C4_Witness ==
    /\ Extracted /\ result = "EmptyResult"
    /\ \E i \in 1..Len(flushed) :
          /\ FlushedFields[i].debit_t # <<>> /\ FlushedFields[i].debit.none
          /\ Truthy(FlushedFields[i].credit)
          /\ FlushedFields[i].desc # <<>>
          /\ ~FlushedFields[i].dt.ok

\* C5 (as claimed): a dated line with a description and a printed balance but
\* no debit and no credit token is emitted as a transaction of amount 0.00
\* carrying the printed balance.
C5_BalanceOnlyLineEmitted ==
    Extracted =>
        \A i \in 1..Len(flushed) :
            LET f == FlushedFields[i]
            IN (f.desc # <<>> /\ f.dt.ok /\ ~f.balance.none
                    /\ f.debit_t = <<>> /\ f.credit_t = <<>>)
               => \E j \in 1..Len(transactions) :
                     /\ transactions[j].description = f.desc
                     /\ transactions[j].amount = Dec(0, 0)
                     /\ transactions[j].balance = f.balance

\* the descriptions of the blocks of the claim's segmentation: a line that
\* passes flush_line's conditions opens a block; any other line that follows
\* one adds its description-zone text to the open block
RECURSIVE BlockDescriptions(_, _)
BlockDescriptions(fields, blocks) ==
    IF fields = <<>> THEN blocks
    ELSE LET f == Head(fields)
             n == Len(blocks)
         IN IF f.emit THEN BlockDescriptions(Tail(fields), Append(blocks, f.desc))
            ELSE IF n = 0 \/ f.desc = <<>> THEN BlockDescriptions(Tail(fields), blocks)
            ELSE BlockDescriptions(Tail(fields),
                    [blocks EXCEPT ![n] = blocks[n] \o <<" ">> \o f.desc])

\* C6 (as claimed): one transaction per block-start line, whose description
\* is the description text of all the block's lines, continuation lines
\* included, joined by single spaces in line order.
C6_ContinuationLinesKept ==
    Extracted =>
        LET blocks == BlockDescriptions(FlushedFields, <<>>)
        IN /\ Len(transactions) = Len(blocks)
           /\ \A i \in 1..Len(transactions) : transactions[i].description = blocks[i]

\* keyword occurs in the joined first-page text, whatever the case
OnFirstPage(keyword) ==
    Contains(Upper(JoinSpace(first_page_strings(temp_file, 40))), Upper(keyword))

BothOnFirstPage(bank, account) == OnFirstPage(bank) /\ OnFirstPage(account)

DetectRan == pc \in {"page", "extract", "extracted", "done"} /\ result # "BadUpload"

\* C7: detect_rule returns a key only if both keywords of its pair occur in
\* the first page's text; with no pair present the request fails as
\* unsupported; and a returned key is a key of PARSING_RULES.
C7_DetectFailsClosed ==
    DetectRan =>
        /\ rule_name = "ABSA_CHEQUE_ACCOUNT_STATEMENT"
              => BothOnFirstPage(<<"a", "b", "s", "a">>, <<"c", "h", "e", "q", "u", "e", " ", "a", "c", "c", "o", "u", "n", "t">>)
        /\ rule_name = "STANDARD_BANK_BUSINESS_CURRENT_ACCOUNT"
              => BothOnFirstPage(<<"s", "t", "a", "n", "d", "a", "r", "d", " ", "b", "a", "n", "k">>, <<"b", "u", "s", "i", "n", "e", "s", "s", " ", "c", "u", "r", "r", "e", "n", "t", " ", "a", "c", "c", "o", "u", "n", "t">>)
        /\ (~BothOnFirstPage(<<"a", "b", "s", "a">>, <<"c", "h", "e", "q", "u", "e", " ", "a", "c", "c", "o", "u", "n", "t">>)
              /\ ~BothOnFirstPage(<<"s", "t", "a", "n", "d", "a", "r", "d", " ", "b", "a", "n", "k">>, <<"b", "u", "s", "i", "n", "e", "s", "s", " ", "c", "u", "r", "r", "e", "n", "t", " ", "a", "c", "c", "o", "u", "n", "t">>))
              => (rule_name = "" /\ result = "Unsupported" /\ pc = "done")
        /\ rule_name # "" => rule_name \in DOMAIN PARSING_RULES
        /\ rule_name = "" => result = "Unsupported"

\* C7 witness: a rule was detected from a first page that spells the
\* keywords in mixed case, and extraction has started under it.
C7_Witness ==
    /\ pc = "extract"
    /\ rule_name = "ABSA_CHEQUE_ACCOUNT_STATEMENT"
    /\ OnFirstPage(<<"a", "b", "s", "a">>) /\ ~Contains(JoinSpace(first_page_strings(temp_file, 40)), <<"A", "B", "S", "A">>)

HasMinus(s) == \E i \in 1..Len(s) : s[i] = "-"

HasChar(s, c) == \E i \in 1..Len(s) : s[i] = c

\* C8 (as claimed): for every amount format and every accepted token,
\* normalizing the normalized token is accepted and changes nothing.
C8_IdempotentAsClaimed ==
    a_pc = "renormalized" => (a_again.ok /\ a_again.s = a_out.s)

\* C8 (amended): normalizing the normalized token is accepted and changes
\* nothing whenever the normalized token carries no minus sign and does not
\* contain the format's thousands separator.
C8_IdempotentOnPlainOutput ==
    (/\ a_pc = "renormalized"
     /\ ~HasMinus(a_out.s)
     /\ ~HasChar(a_out.s, AmountFormat(a_rule).thousands_separator))
        => (a_again.ok /\ a_again.s = a_out.s)

\* C8 witness: "1 234.56" under space thousands and dot decimal gave
\* "1234.56", and "1234.56" again.
C8_Witness ==
    /\ a_pc = "renormalized"
    /\ a_rule = "ABSA_CHEQUE_ACCOUNT_STATEMENT"
    /\ a_raw = <<"1", " ", "2", "3", "4", ".", "5", "6">>
    /\ a_out.s = <<"1", "2", "3", "4", ".", "5", "6">>
    /\ a_again.ok /\ a_again.s = <<"1", "2", "3", "4", ".", "5", "6">>

\* the line's first two words are the date pair "03" "22"
StartsWithDatePair(xmap) ==
    Len(xmap) >= 2 /\ xmap[1].w = <<"0", "3">> /\ xmap[2].w = <<"2", "2">>

\* C9 (as claimed): under the Standard Bank rule with fallback year 2025, a
\* line printed as "03" "22", a description and an amount is emitted with the
\* date 2025-03-22.
C9_DatePairEmitted ==
    (/\ Extracted
     /\ rule_name = "STANDARD_BANK_BUSINESS_CURRENT_ACCOUNT"
     /\ first_year_from_doc = 2025)
        => \A i \in 1..Len(flushed) :
              LET f == FlushedFields[i]
              IN (StartsWithDatePair(flushed[i]) /\ f.desc # <<>>
                      /\ (Truthy(f.debit) \/ Truthy(f.credit)))
                 => \E j \in 1..Len(transactions) :
                       transactions[j].date = <<"2", "0", "2", "5", "-", "0", "3", "-", "2", "2">>

\* the token with its separators normalized: stripped, thousands separators
\* removed, the decimal separator a point, a trailing minus (when the format
\* prints one) moved to the front
SeparatorNormalized(raw, fmt) ==
    LET r0 == Strip(raw)
        tr == fmt.negative_trailing = "Y" /\ EndsWith(r0, "-")
        r1 == IF tr THEN Strip(SubSeq(r0, 1, Len(r0) - 1)) ELSE r0
        r2 == ReplaceChar(RemoveChar(r1, fmt.thousands_separator),
                          fmt.decimal_separator, ".")
    IN IF tr THEN <<"-">> \o r2 ELSE r2

\* an optionally signed decimal: -?(\d+(\.\d*)?|\.\d+)
IsSignedDecimal(s) ==
    LET body == IF s # <<>> /\ Head(s) = "-" THEN Tail(s) ELSE s
    IN /\ \A i \in 1..Len(body) : body[i] \in DigitChars \cup {"."}
       /\ Cardinality({i \in 1..Len(body) : body[i] = "."}) <= 1
       /\ \E i \in 1..Len(body) : body[i] \in DigitChars

\* C10 (as claimed): safe_parse_amount returns None exactly when the
\* separator-normalized token is not a valid decimal number; "-123.45" under
\* the ABSA format gives -123.45; no token ending in a letter is accepted.
C10_NoneIffNotDecimal ==
    a_pc = "parsed" =>
        /\ a_val.none <=> ~IsSignedDecimal(SeparatorNormalized(a_raw, AmountFormat(a_rule)))
        /\ (a_rule = "ABSA_CHEQUE_ACCOUNT_STATEMENT" /\ a_raw = <<"-", "1", "2", "3", ".", "4", "5">>)
              => a_val = Dec(0 - 12345, 2)
        /\ (a_raw # <<>> /\ a_raw[Len(a_raw)] \in UpperChars \cup LowerChars)
              => a_val.none

====
